---- MODULE Spec2Model ----
(***************************************************************************)
(* A model of pdm's layered configuration store, pdm/project/config.py.    *)
(*                                                                         *)
(* Representation.                                                         *)
(*  - A Python str that is used as a key is held as the sequence of its    *)
(*    '.'-separated pieces ("python.path" is <<"python", "path">>), so     *)
(*    that f"{k}.{sub_k}" is concatenation and key.split(".") is the       *)
(*    sequence of the pieces.  A table key of a TOML document may itself   *)
(*    hold a '.', i.e. have more than one piece.                           *)
(*  - A Python dict is held as the sequence of its items in insertion      *)
(*    order, each item a record [k, v] (dicts iterate in insertion order   *)
(*    and the order decides what save_config builds).                      *)
(*  - A value is a record [kind, s, b, n, sub]: a str (s, the sequence of  *)
(*    its characters), a bool (b), a number (n) or a table (sub, a dict).  *)
(*  - A file is held in parsed form, [exists, doc]: tomlkit's parse and    *)
(*    dumps are collaborators outside the program.                         *)
(***************************************************************************)
EXTENDS Integers, Sequences, FiniteSets, TLC

VARIABLES
    data,                 \* Config._data: the merged view
    dirty,                \* Config._dirty
    project_config,       \* Config._project_config: the unmerged Project layer
    home_config,          \* Config._home_config: the unmerged Home layer
    project_config_file,  \* what is at <project_root>/.pdm.toml
    home_config_file,     \* what is at Config._home_config_file
    project_parent,       \* what is at _project_config_file.parent
    home_parent,          \* what is at _home_config_file.parent
    last,                 \* the last call made on the store and how it ended
    nops                  \* number of calls made on the store

vars == <<data, dirty, project_config, home_config, project_config_file,
          home_config_file, project_parent, home_parent, last, nops>>

-----------------------------------------------------------------------------
(* Values *)

Str(s) == [kind |-> "str", s |-> s, b |-> FALSE, n |-> 0, sub |-> <<>>]
Bool(b) == [kind |-> "bool", s |-> <<>>, b |-> b, n |-> 0, sub |-> <<>>]
Num(n) == [kind |-> "num", s |-> <<>>, b |-> FALSE, n |-> n, sub |-> <<>>]
Table(d) == [kind |-> "table", s |-> <<>>, b |-> FALSE, n |-> 0, sub |-> d]
None == [kind |-> "none", s |-> <<>>, b |-> FALSE, n |-> 0, sub |-> <<>>]

(* Python dicts, in insertion order *)

Item(k, v) == [k |-> k, v |-> v]
DictKeys(d) == {d[i].k : i \in DOMAIN d}
DictHas(d, k) == k \in DictKeys(d)
DictGet(d, k) == d[CHOOSE i \in DOMAIN d : d[i].k = k].v

\* d[k] = v: an existing key keeps its position, a new key goes last
DictSet(d, k, v) ==
    IF DictHas(d, k)
    THEN [i \in DOMAIN d |-> IF d[i].k = k THEN Item(k, v) ELSE d[i]]
    ELSE Append(d, Item(k, v))

\* d.update(e)
RECURSIVE DictUpdate(_, _)
DictUpdate(d, e) ==
    IF e = <<>> THEN d
    ELSE DictUpdate(DictSet(d, Head(e).k, Head(e).v), Tail(e))

\* dict equality: the same keys with equal values, whatever the order
RECURSIVE DictEq(_, _)
DictEq(d, e) ==
    /\ DictKeys(d) = DictKeys(e)
    /\ \A k \in DictKeys(d) :
          LET x == DictGet(d, k)
              y == DictGet(e, k)
          IN  IF x.kind = "table" /\ y.kind = "table"
              THEN DictEq(x.sub, y.sub)
              ELSE x = y

-----------------------------------------------------------------------------
(* The key registry and the defaults *)

K_cache_dir == <<"cache_dir">>
K_python_path == <<"python", "path">>
K_python_use_pyenv == <<"python", "use_pyenv">>
K_pypi_url == <<"pypi", "url">>
K_pypi_verify_ssl == <<"pypi", "verify_ssl">>

\* key :> not_for_project
CONFIG_ITEMS ==
    (K_cache_dir :> TRUE) @@ (K_python_path :> FALSE)
    @@ (K_python_use_pyenv :> FALSE) @@ (K_pypi_url :> FALSE)
    @@ (K_pypi_verify_ssl :> FALSE)

\* appdirs.user_cache_dir("pdm"): some path
user_cache_dir == Str(<<"~", "c">>)

\* pdm.utils.get_pypi_source(): the package index's url and verify_ssl
get_pypi_source ==
    <<Item(K_pypi_url, Str(<<"u">>)), Item(K_pypi_verify_ssl, Bool(TRUE))>>

\* the defaults without the update of line 31
DEFAULT_CONFIG_NoPypi ==
    <<Item(K_cache_dir, user_cache_dir), Item(K_python_use_pyenv, Bool(TRUE))>>

DEFAULT_CONFIG ==
    DictUpdate(<<Item(K_cache_dir, user_cache_dir),
                 Item(K_python_use_pyenv, Bool(TRUE))>>,
               get_pypi_source)

-----------------------------------------------------------------------------
(* load_config *)

\* the comprehension with sub_k alone as the key
Prefixed_SubKey(k, flat) == flat

\* {f"{k}.{sub_k}": sub_v for sub_k, sub_v in flat.items()}
Prefixed(k, flat) == [i \in DOMAIN flat |-> Item(k \o flat[i].k, flat[i].v)]

RECURSIVE get_item(_)
get_item(sub_data) ==
    IF sub_data = <<>> THEN <<>>
    ELSE LET result == get_item(SubSeq(sub_data, 1, Len(sub_data) - 1))
             e == sub_data[Len(sub_data)]
         IN  IF e.v.kind = "table"
             THEN DictUpdate(result, Prefixed(e.k, get_item(e.v.sub)))
             ELSE DictSet(result, e.k, e.v)

NoFile == [exists |-> FALSE, doc |-> <<>>]
File(doc) == [exists |-> TRUE, doc |-> doc]

load_config(file) == IF ~file.exists THEN <<>> ELSE get_item(file.doc)

-----------------------------------------------------------------------------
(* save_config: the loop that builds toml_data *)

Failed == [ok |-> FALSE, doc |-> <<>>]
Built(doc) == [ok |-> TRUE, doc |-> doc]

\* the loop with temp[part] = {} for setdefault: a table that is there is
\* replaced by a fresh one
RECURSIVE PutPath_FreshTable(_, _, _)
PutPath_FreshTable(temp, path, value) ==
    LET part == <<Head(path)>>
    IN  IF Len(path) = 1 THEN Built(DictSet(temp, part, value))
        ELSE LET r == PutPath_FreshTable(<<>>, Tail(path), value)
             IN  Built(DictSet(temp, part, Table(r.doc)))

\* temp = temp.setdefault(part, {}) for every part, then temp[last] = value;
\* a str, bool or number met on the way has no setdefault and takes no item
\* (AttributeError or TypeError, both reported as "TypeError" by the calls)
RECURSIVE PutPath(_, _, _)
PutPath(temp, path, value) ==
    LET part == <<Head(path)>>
    IN  IF Len(path) = 1 THEN Built(DictSet(temp, part, value))
        ELSE IF DictHas(temp, part)
             THEN LET child == DictGet(temp, part)
                  IN  IF child.kind # "table" THEN Failed
                      ELSE LET r == PutPath(child.sub, Tail(path), value)
                           IN  IF r.ok
                               THEN Built(DictSet(temp, part, Table(r.doc)))
                               ELSE Failed
             ELSE LET r == PutPath(<<>>, Tail(path), value)
                  IN  IF r.ok
                      THEN Built(Append(temp, Item(part, Table(r.doc))))
                      ELSE Failed

RECURSIVE Unflatten(_)
Unflatten(flat) ==
    IF flat = <<>> THEN Built(<<>>)
    ELSE LET before == Unflatten(SubSeq(flat, 1, Len(flat) - 1))
             e == flat[Len(flat)]
         IN  IF before.ok THEN PutPath(before.doc, e.k, e.v) ELSE Failed

-----------------------------------------------------------------------------
(* The file system under the two configuration paths *)

\* What is at a file's parent path: a directory, a regular file, nothing
\* (the parent's own parent being a directory), or nothing with the parent's
\* own parent missing as well
ParentStates == {"dir", "file", "absent", "noancestor"}

\* file_path.parent.mkdir(exist_ok=True): no parents=True
Mkdir(parent) ==
    CASE parent = "dir" -> [ok |-> TRUE, parent |-> "dir", err |-> "ok"]
      [] parent = "absent" -> [ok |-> TRUE, parent |-> "dir", err |-> "ok"]
      [] parent = "file" ->
            [ok |-> FALSE, parent |-> parent, err |-> "FileExistsError"]
      [] parent = "noancestor" ->
            [ok |-> FALSE, parent |-> parent, err |-> "FileNotFoundError"]

\* How file_path.open("w") and fp.write end: both succeed, open raises (the
\* file is as it was), or the write raises after open has truncated the file
IoOutcomes == {"ok", "open_fails", "write_fails"}

-----------------------------------------------------------------------------
(* The calls on the store *)

Call(op, key, value, for_proejct, res, names) ==
    [op |-> op, key |-> key, value |-> value, for_proejct |-> for_proejct,
     res |-> res, names |-> names]

\* Config.__init__ with the two layers merged in the other order
Config_init_HomeLast(pparent, pfile, hparent, hfile) ==
    /\ project_parent = pparent
    /\ project_config_file = pfile
    /\ home_parent = hparent
    /\ home_config_file = hfile
    /\ dirty = <<>>
    /\ project_config = load_config(pfile)
    /\ home_config = load_config(hfile)
    /\ data = DictUpdate(DictUpdate(DEFAULT_CONFIG, load_config(pfile)),
                         load_config(hfile))
    /\ last = Call("init", <<>>, None, FALSE, "ok", <<>>)
    /\ nops = 0

\* Config.__init__ over the given file system
Config_init(pparent, pfile, hparent, hfile) ==
    /\ project_parent = pparent
    /\ project_config_file = pfile
    /\ home_parent = hparent
    /\ home_config_file = hfile
    /\ dirty = <<>>
    /\ project_config = load_config(pfile)
    /\ home_config = load_config(hfile)
    /\ data = DictUpdate(DictUpdate(DEFAULT_CONFIG, load_config(hfile)),
                         load_config(pfile))
    /\ last = Call("init", <<>>, None, FALSE, "ok", <<>>)
    /\ nops = 0

\* str.lower() of one character
LowerChar(c) ==
    CASE c = "T" -> "t" [] c = "R" -> "r" [] c = "U" -> "u" [] c = "E" -> "e"
      [] c = "F" -> "f" [] c = "A" -> "a" [] c = "L" -> "l" [] c = "S" -> "s"
      [] c = "N" -> "n" [] c = "O" -> "o" [] c = "Y" -> "y"
      [] OTHER -> c

Lower(s) == [i \in DOMAIN s |-> LowerChar(s[i])]

\* the coercion comparing the text as given, without lower()
Coerce_AsGiven(value) ==
    IF value.kind = "str"
    THEN IF value.s = <<"f", "a", "l", "s", "e">> THEN Bool(FALSE)
         ELSE IF value.s = <<"t", "r", "u", "e">> THEN Bool(TRUE)
         ELSE value
    ELSE value

\* __setitem__, lines 95-99
Coerce(value) ==
    IF value.kind = "str"
    THEN IF Lower(value.s) = <<"f", "a", "l", "s", "e">> THEN Bool(FALSE)
         ELSE IF Lower(value.s) = <<"t", "r", "u", "e">> THEN Bool(TRUE)
         ELSE value
    ELSE value

\* __setitem__ that stores before it looks the key up
setitem_StoresFirst(key, value) ==
    /\ nops' = nops + 1
    /\ UNCHANGED <<project_config, home_config, project_config_file,
                   home_config_file, project_parent, home_parent>>
    /\ data' = DictSet(data, key, Coerce(value))
    /\ IF key \notin DOMAIN CONFIG_ITEMS
       THEN /\ last' = Call("set", key, value, FALSE, "NoConfigError", <<key>>)
            /\ UNCHANGED dirty
       ELSE /\ dirty' = DictSet(dirty, key, Coerce(value))
            /\ last' = Call("set", key, value, FALSE, "ok", <<>>)

\* __setitem__ that leaves the merged view alone
setitem_DirtyOnly(key, value) ==
    /\ nops' = nops + 1
    /\ UNCHANGED <<project_config, home_config, project_config_file,
                   home_config_file, project_parent, home_parent>>
    /\ IF key \notin DOMAIN CONFIG_ITEMS
       THEN /\ last' = Call("set", key, value, FALSE, "NoConfigError", <<key>>)
            /\ UNCHANGED <<data, dirty>>
       ELSE /\ dirty' = DictSet(dirty, key, Coerce(value))
            /\ UNCHANGED data
            /\ last' = Call("set", key, value, FALSE, "ok", <<>>)

\* Config.__setitem__
setitem(key, value) ==
    /\ nops' = nops + 1
    /\ UNCHANGED <<project_config, home_config, project_config_file,
                   home_config_file, project_parent, home_parent>>
    /\ IF key \notin DOMAIN CONFIG_ITEMS
       THEN /\ last' = Call("set", key, value, FALSE, "NoConfigError", <<key>>)
            /\ UNCHANGED <<data, dirty>>
       ELSE /\ dirty' = DictSet(dirty, key, Coerce(value))
            /\ data' = DictSet(data, key, Coerce(value))
            /\ last' = Call("set", key, value, FALSE, "ok", <<>>)

\* the list with the flag never read: no key is held back
not_for_project_keys_None == <<>>

\* [k for k in self._dirty if self.CONFIG_ITEMS[k][1]]
not_for_project_keys ==
    LET ks == [i \in DOMAIN dirty |-> dirty[i].k]
        NotForProject(k) == CONFIG_ITEMS[k]
    IN  SelectSeq(ks, NotForProject)

\* the merged view taken as the mapping to write
target_layer_Merged(for_proejct) == data

\* data = self._project_config if for_proejct else self._home_config
target_layer(for_proejct) ==
    IF for_proejct THEN project_config ELSE home_config

\* file_path = self._project_config_file if for_proejct else
\* self._home_config_file, and its parent
target_file(for_proejct) ==
    IF for_proejct THEN project_config_file ELSE home_config_file
target_parent(for_proejct) ==
    IF for_proejct THEN project_parent ELSE home_parent

\* a write that reports success and leaves the file as it was
WriteFile_NoWrite(file, toml_data, io) ==
    CASE io = "open_fails" -> [res |-> "OSError", file |-> file]
      [] io = "write_fails" -> [res |-> "OSError", file |-> File(<<>>)]
      [] io = "ok" -> [res |-> "ok", file |-> file]

\* with file_path.open("w") as fp: fp.write(tomlkit.dumps(toml_data))
WriteFile(file, toml_data, io) ==
    CASE io = "open_fails" -> [res |-> "OSError", file |-> file]
      [] io = "write_fails" -> [res |-> "OSError", file |-> File(<<>>)]
      [] io = "ok" -> [res |-> "ok", file |-> File(toml_data)]

SaveEnd(res, names, layer, parent, file, dirty2) ==
    [res |-> res, names |-> names, layer |-> layer, parent |-> parent,
     file |-> file, dirty |-> dirty2]

\* save_config that clears _dirty before it makes the directory and writes
SaveOutcome_ClearsFirst(for_proejct, io) ==
    LET layer == target_layer(for_proejct)
        parent == target_parent(for_proejct)
        file == target_file(for_proejct)
        merged == DictUpdate(layer, dirty)
        made == Mkdir(parent)
        toml_data == Unflatten(merged)
        written == WriteFile(file, toml_data.doc, io)
    IN  IF not_for_project_keys # <<>> /\ for_proejct
        THEN SaveEnd("ValueError", not_for_project_keys, layer, parent, file,
                     dirty)
        ELSE IF ~made.ok
        THEN SaveEnd(made.err, <<>>, merged, parent, file, <<>>)
        ELSE IF ~toml_data.ok
        THEN SaveEnd("TypeError", <<>>, merged, made.parent, file, <<>>)
        ELSE SaveEnd(written.res, <<>>, merged, made.parent, written.file,
                     <<>>)

\* Config.save_config with the file system answering io: how the call ends,
\* and the target layer, the target's parent and file and _dirty after it
SaveOutcome(for_proejct, io) ==
    LET layer == target_layer(for_proejct)
        parent == target_parent(for_proejct)
        file == target_file(for_proejct)
        merged == DictUpdate(layer, dirty)
        made == Mkdir(parent)
        toml_data == Unflatten(merged)
        written == WriteFile(file, toml_data.doc, io)
    IN  IF not_for_project_keys # <<>> /\ for_proejct
        THEN SaveEnd("ValueError", not_for_project_keys, layer, parent, file,
                     dirty)
        ELSE IF ~made.ok
        THEN SaveEnd(made.err, <<>>, merged, parent, file, dirty)
        ELSE IF ~toml_data.ok
        THEN SaveEnd("TypeError", <<>>, merged, made.parent, file, dirty)
        ELSE SaveEnd(written.res, <<>>, merged, made.parent, written.file,
                     IF written.res = "ok" THEN <<>> ELSE dirty)

\* save_config that never clears _dirty
save_config_KeepsDirty(for_proejct) ==
    \E io \in IoOutcomes :
        LET end == SaveOutcome(for_proejct, io)
        IN  /\ nops' = nops + 1
            /\ last' = Call("save", <<>>, None, for_proejct, end.res,
                            end.names)
            /\ UNCHANGED <<data, dirty>>
            /\ IF for_proejct
               THEN /\ project_config' = end.layer
                    /\ project_parent' = end.parent
                    /\ project_config_file' = end.file
                    /\ UNCHANGED <<home_config, home_parent, home_config_file>>
               ELSE /\ home_config' = end.layer
                    /\ home_parent' = end.parent
                    /\ home_config_file' = end.file
                    /\ UNCHANGED <<project_config, project_parent,
                                   project_config_file>>

\* save_config that updates both layers with _dirty
save_config_BothLayers(for_proejct) ==
    \E io \in IoOutcomes :
        LET end == SaveOutcome(for_proejct, io)
        IN  /\ nops' = nops + 1
            /\ last' = Call("save", <<>>, None, for_proejct, end.res,
                            end.names)
            /\ dirty' = end.dirty
            /\ UNCHANGED data
            /\ IF for_proejct
               THEN /\ project_config' = end.layer
                    /\ project_parent' = end.parent
                    /\ project_config_file' = end.file
                    /\ home_config' = DictUpdate(home_config, dirty)
                    /\ UNCHANGED <<home_parent, home_config_file>>
               ELSE /\ home_config' = end.layer
                    /\ home_parent' = end.parent
                    /\ home_config_file' = end.file
                    /\ project_config' = DictUpdate(project_config, dirty)
                    /\ UNCHANGED <<project_parent, project_config_file>>

\* Config.save_config
save_config(for_proejct) ==
    \E io \in IoOutcomes :
        LET end == SaveOutcome(for_proejct, io)
        IN  /\ nops' = nops + 1
            /\ last' = Call("save", <<>>, None, for_proejct, end.res,
                            end.names)
            /\ dirty' = end.dirty
            /\ UNCHANGED data
            /\ IF for_proejct
               THEN /\ project_config' = end.layer
                    /\ project_parent' = end.parent
                    /\ project_config_file' = end.file
                    /\ UNCHANGED <<home_config, home_parent, home_config_file>>
               ELSE /\ home_config' = end.layer
                    /\ home_parent' = end.parent
                    /\ home_config_file' = end.file
                    /\ UNCHANGED <<project_config, project_parent,
                                   project_config_file>>

\* __getitem__ that answers None for a registered key the view lacks
getitem_Registered(key) ==
    IF DictHas(data, key)
    THEN [res |-> "ok", value |-> DictGet(data, key)]
    ELSE IF key \in DOMAIN CONFIG_ITEMS
    THEN [res |-> "ok", value |-> None]
    ELSE [res |-> "NoConfigError", value |-> None]

\* Config.__getitem__
getitem(key) ==
    IF DictHas(data, key)
    THEN [res |-> "ok", value |-> DictGet(data, key)]
    ELSE [res |-> "NoConfigError", value |-> None]

\* Config.__getitem__ called: the value or the error goes to the caller
get(key) ==
    /\ nops' = nops + 1
    /\ last' = Call("get", key, getitem(key).value, FALSE, getitem(key).res,
                    IF getitem(key).res = "ok" THEN <<>> ELSE <<key>>)
    /\ UNCHANGED <<data, dirty, project_config, home_config,
                   project_config_file, home_config_file, project_parent,
                   home_parent>>

\* __delitem__ that does nothing and raises nothing
delitem_Silent(key) ==
    /\ nops' = nops + 1
    /\ last' = Call("del", key, None, FALSE, "ok", <<>>)
    /\ UNCHANGED <<data, dirty, project_config, home_config,
                   project_config_file, home_config_file, project_parent,
                   home_parent>>

\* __delitem__ that deletes from the merged view
delitem_Pops(key) ==
    /\ nops' = nops + 1
    /\ last' = Call("del", key, None, FALSE, "ok", <<>>)
    /\ data' = SelectSeq(data, LAMBDA e : e.k # key)
    /\ UNCHANGED <<dirty, project_config, home_config,
                   project_config_file, home_config_file, project_parent,
                   home_parent>>

\* Config.__delitem__
delitem(key) ==
    /\ nops' = nops + 1
    /\ last' = Call("del", key, None, FALSE, "NotImplementedError", <<>>)
    /\ UNCHANGED <<data, dirty, project_config, home_config,
                   project_config_file, home_config_file, project_parent,
                   home_parent>>

\* iteration over the defaults in place of the merged view
iter_data_Defaults == [i \in DOMAIN DEFAULT_CONFIG |-> DEFAULT_CONFIG[i].k]

\* Config.__iter__: iter(self._data), the keys in the order of the dict
iter_data == [i \in DOMAIN data |-> data[i].k]

\* Config.__len__: len(self._data)
len_data == Len(data)

\* list(config) and len(config) called: the keys and their number go to the
\* caller
iter_len ==
    /\ nops' = nops + 1
    /\ last' = Call("iter", <<>>, Num(len_data), FALSE, "ok", iter_data)
    /\ UNCHANGED <<data, dirty, project_config, home_config,
                   project_config_file, home_config_file, project_parent,
                   home_parent>>

-----------------------------------------------------------------------------
(* The store in use: construction over some file system, then calls *)

\* Largest number of calls made on one store
MaxOps == 3

\* Contents of the home file that the store is built over
HomeDocs ==
    { <<>>,
      <<Item(K_cache_dir, Str(<<"h">>))>>,
      <<Item(<<"python">>, Table(<<Item(<<"path">>, Str(<<"h">>)),
                                   Item(<<"use_pyenv">>, Bool(FALSE))>>))>>,
      <<Item(K_cache_dir, Table(<<Item(<<"x">>, Str(<<"h">>))>>))>> }

\* Contents of the project file that the store is built over
ProjectDocs ==
    { <<>>,
      <<Item(K_cache_dir, Str(<<"p">>))>>,
      <<Item(<<"python">>, Table(<<Item(<<"path">>, Str(<<"p">>))>>)),
        Item(<<"pypi">>, Table(<<Item(<<"url">>, Str(<<"p">>))>>))>>,
      <<Item(<<"python">>, Str(<<"p">>))>>,
      <<Item(<<"python">>,
             Table(<<Item(<<"path">>,
                          Table(<<Item(<<"x">>, Str(<<"p">>))>>))>>))>> }

\* A file exists only in a directory
FileSystems(docs) ==
    [parent : ParentStates \ {"dir"}, file : {NoFile}]
    \cup [parent : {"dir"}, file : {NoFile} \cup {File(d) : d \in docs}]

\* The keys and values the callers pass to __setitem__
SetKeys == {K_cache_dir, K_python_path, <<"not", "a", "real", "key">>}
SetValues == {Str(<<"T", "r", "u", "e">>), Str(<<"n", "o">>)}

Init ==
    \E p \in FileSystems(ProjectDocs), h \in FileSystems(HomeDocs) :
        Config_init(p.parent, p.file, h.parent, h.file)

SetItem == nops < MaxOps /\ \E k \in SetKeys, v \in SetValues : setitem(k, v)

SaveConfig == nops < MaxOps /\ \E for_proejct \in BOOLEAN : save_config(for_proejct)

GetItem == nops < MaxOps /\ \E k \in SetKeys : get(k)

DelItem == nops < MaxOps /\ \E k \in SetKeys : delitem(k)

IterLen == nops < MaxOps /\ iter_len

Next == SetItem \/ SaveConfig \/ GetItem \/ DelItem \/ IterLen

Spec == Init /\ [][Next]_vars

-----------------------------------------------------------------------------
(* One __setitem__ on a store just built, over many values *)

\* str.upper() of one lower-case letter
UpperChar(c) ==
    CASE c = "t" -> "T" [] c = "r" -> "R" [] c = "u" -> "U" [] c = "e" -> "E"
      [] c = "f" -> "F" [] c = "a" -> "A" [] c = "l" -> "L" [] c = "s" -> "S"
      [] c = "n" -> "N" [] c = "o" -> "O" [] c = "y" -> "Y"
      [] OTHER -> c

\* Every spelling of the word w in upper and lower case
CaseVariants(w) ==
    {s \in [DOMAIN w -> {w[i] : i \in DOMAIN w}
                        \cup {UpperChar(w[i]) : i \in DOMAIN w}] :
        \A i \in DOMAIN w : s[i] \in {w[i], UpperChar(w[i])}}

CoerceWords ==
    { <<"t", "r", "u", "e">>, <<"f", "a", "l", "s", "e">>, <<"n", "o">>,
      <<"y", "e", "s">>, <<"1">>, <<"0">>, <<" ", "t", "r", "u", "e">>,
      <<"t", "r", "u", "e", " ">>, <<"t", "r", "u">>, <<"f", "a", "l", "s">>,
      <<"t">>, <<"f">>, <<>> }

\* The values passed to __setitem__: texts, bools and numbers
CoerceInputs ==
    {Str(s) : s \in UNION {CaseVariants(w) : w \in CoerceWords}}
    \cup {Bool(TRUE), Bool(FALSE), Num(0), Num(1)}

SetCoerced ==
    /\ nops = 0
    /\ \E k \in {K_python_use_pyenv, K_python_path}, v \in CoerceInputs :
          setitem(k, v)

SpecCoerce == Init /\ [][SetCoerced]_vars

-----------------------------------------------------------------------------
(* A store built over any small project file, then saved to the project *)

\* Largest number of entries, tables counted, in a project file
MaxNodes == 3

\* Table keys: plain ones and one that holds a '.'
DocKeys == {<<"python">>, <<"path">>, <<"python", "path">>}
DocScalars == {Str(<<"p">>), Bool(FALSE)}

\* The documents of exactly n entries with top-level keys among keys, and
\* the values of exactly n entries
RECURSIVE DocsOfSize(_, _)
RECURSIVE NodesOfSize(_)
DocsOfSize(n, keys) ==
    IF n = 0 THEN {<<>>}
    ELSE UNION { UNION { { <<Item(k, v)>> \o rest :
                             v \in NodesOfSize(s),
                             rest \in DocsOfSize(n - s, keys \ {k}) } :
                         s \in 1..n } :
                 k \in keys }
NodesOfSize(n) ==
    IF n = 1 THEN DocScalars \cup {Table(<<>>)}
    ELSE {Table(d) : d \in DocsOfSize(n - 1, DocKeys)}

AllDocs == UNION {DocsOfSize(n, DocKeys) : n \in 0..MaxNodes}

InitDoc ==
    \E d \in AllDocs : Config_init("dir", File(d), "absent", NoFile)

SaveDoc == nops = 0 /\ save_config(TRUE)

SpecDoc == InitDoc /\ [][SaveDoc]_vars

-----------------------------------------------------------------------------
(* Construction as a step: the file system first, then Config.__init__ *)

\* No store yet, over the given file system
Unbuilt(pparent, pfile, hparent, hfile) ==
    /\ project_parent = pparent
    /\ project_config_file = pfile
    /\ home_parent = hparent
    /\ home_config_file = hfile
    /\ data = <<>>
    /\ dirty = <<>>
    /\ project_config = <<>>
    /\ home_config = <<>>
    /\ last = Call("none", <<>>, None, FALSE, "ok", <<>>)
    /\ nops = 0

InitUnbuilt ==
    \E p \in FileSystems(ProjectDocs), h \in FileSystems(HomeDocs) :
        Unbuilt(p.parent, p.file, h.parent, h.file)

\* Config.__init__ as a step over the file system that is there: it reads
\* the two files and writes nothing
Build ==
    /\ last.op = "none"
    /\ data' = DictUpdate(DictUpdate(DEFAULT_CONFIG,
                                     load_config(home_config_file)),
                          load_config(project_config_file))
    /\ dirty' = <<>>
    /\ project_config' = load_config(project_config_file)
    /\ home_config' = load_config(home_config_file)
    /\ last' = Call("init", <<>>, None, FALSE, "ok", <<>>)
    /\ UNCHANGED <<project_config_file, home_config_file, project_parent,
                   home_parent, nops>>

SpecBuild == InitUnbuilt /\ [][Build]_vars

-----------------------------------------------------------------------------
(* Properties *)

\* d.get(k), None standing for an absent key
Lookup(d, k) == IF DictHas(d, k) THEN DictGet(d, k) ELSE None

\* Every key that a layer, the defaults, the merged view or the registry names
KnownKeys ==
    DictKeys(data) \cup DictKeys(project_config) \cup DictKeys(home_config)
    \cup DictKeys(DEFAULT_CONFIG) \cup DOMAIN CONFIG_ITEMS

\* The step is a call of the given kind on the store
IsCall(op) == nops' = nops + 1 /\ last'.op = op

\* The project-restricted keys of _dirty
RestrictedInDirty ==
    {k \in DictKeys(dirty) : k \in DOMAIN CONFIG_ITEMS /\ CONFIG_ITEMS[k]}

\* The unmerged layer a save goes to, and that layer's file
Layer(for_proejct) == IF for_proejct THEN project_config ELSE home_config
LayerFile(for_proejct) ==
    IF for_proejct THEN project_config_file ELSE home_config_file

\* The dotted key a is a proper beginning of the dotted key b
IsStrictPrefix(a, b) == Len(a) < Len(b) /\ SubSeq(b, 1, Len(a)) = a

\* No key of the set is a proper beginning of another
PrefixFree(keys) == \A a \in keys, b \in keys : ~IsStrictPrefix(a, b)

\* What a document holds at the end of the path of single pieces, None
\* standing for no such entry
RECURSIVE AtPath(_, _)
AtPath(doc, path) ==
    IF ~DictHas(doc, <<Head(path)>>) THEN None
    ELSE LET node == DictGet(doc, <<Head(path)>>)
         IN  IF Len(path) = 1 THEN node
             ELSE IF node.kind = "table" THEN AtPath(node.sub, Tail(path))
             ELSE None

\* A document whose keys hold no '.' and whose tables are not empty
RECURSIVE PlainDoc(_)
PlainDoc(doc) ==
    \A i \in DOMAIN doc :
        /\ Len(doc[i].k) = 1
        /\ doc[i].v.kind = "table"
              => (doc[i].v.sub # <<>> /\ PlainDoc(doc[i].v.sub))

\* C1: right after construction the merged view holds, for every key, the
\* Project layer's value if the Project layer has the key, otherwise the Home
\* layer's, otherwise the default, and otherwise has no such key.
C1_Precedence ==
    last.op = "init" =>
        \A k \in KnownKeys :
            Lookup(data, k) =
                IF DictHas(project_config, k) THEN DictGet(project_config, k)
                ELSE IF DictHas(home_config, k) THEN DictGet(home_config, k)
                ELSE Lookup(DEFAULT_CONFIG, k)

\* a store just built over files that both set cache_dir, to different
\* values, which has a default as well
C1_Witness ==
    /\ last.op = "init"
    /\ DictHas(project_config, K_cache_dir)
    /\ DictHas(home_config, K_cache_dir)
    /\ DictHas(DEFAULT_CONFIG, K_cache_dir)
    /\ DictGet(project_config, K_cache_dir) # DictGet(home_config, K_cache_dir)
    /\ DictGet(home_config, K_cache_dir) # DictGet(DEFAULT_CONFIG, K_cache_dir)

\* C2: save_config(True) called while _dirty holds a project-restricted key
\* ends in the ValueError that names exactly those keys, and the project
\* file, both layers, _dirty and the merged view are as before the call.
C2_RestrictedSaveFails ==
    [][(IsCall("save") /\ last'.for_proejct /\ RestrictedInDirty # {})
        => /\ last'.res = "ValueError"
           /\ {last'.names[i] : i \in DOMAIN last'.names} = RestrictedInDirty
           /\ UNCHANGED <<project_config_file, project_config, home_config,
                          dirty, data>>]_vars

\* a save to the project refused with cache_dir pending
C2_Witness ==
    /\ last.op = "save" /\ last.for_proejct /\ last.res = "ValueError"
    /\ K_cache_dir \in RestrictedInDirty

\* C3: no successful save_config(True) leaves a project file that holds a
\* project-restricted key.
C3_NoRestrictedKeyInProjectFile ==
    (last.op = "save" /\ last.for_proejct /\ last.res = "ok") =>
        \A k \in DictKeys(get_item(project_config_file.doc)) :
            ~(k \in DOMAIN CONFIG_ITEMS /\ CONFIG_ITEMS[k])

\* C4: __setitem__ with a key outside CONFIG_ITEMS ends in NoConfigError
\* naming the key and leaves the merged view and _dirty as they were; _dirty
\* never holds a key outside CONFIG_ITEMS.
C4_UnknownKeyRejected ==
    /\ [](DictKeys(dirty) \subseteq DOMAIN CONFIG_ITEMS)
    /\ [][(IsCall("set") /\ last'.key \notin DOMAIN CONFIG_ITEMS)
           => /\ last'.res = "NoConfigError"
              /\ last'.names = <<last'.key>>
              /\ UNCHANGED <<data, dirty>>]_vars

\* a set of an unregistered key that was refused
C4_Witness ==
    /\ last.op = "set" /\ last.key \notin DOMAIN CONFIG_ITEMS
    /\ last.res = "NoConfigError"

\* C5: __setitem__ with a key of CONFIG_ITEMS succeeds and puts the coerced
\* value under the key in both _dirty and the merged view, so that
\* __getitem__ returns it whatever the layers hold; every other key of the
\* two keeps its value, and the layers and the files are untouched.
C5_SetStores ==
    [][\A key \in DOMAIN CONFIG_ITEMS :
        (IsCall("set") /\ last'.key = key)
        => /\ last'.res = "ok"
           /\ getitem(key)' = [res |-> "ok", value |-> Coerce(last'.value)]
           /\ Lookup(dirty', key) = Coerce(last'.value)
           /\ DictKeys(data') = DictKeys(data) \cup {key}
           /\ DictKeys(dirty') = DictKeys(dirty) \cup {key}
           /\ \A k \in KnownKeys \ {key} :
                 /\ Lookup(data', k) = Lookup(data, k)
                 /\ Lookup(dirty', k) = Lookup(dirty, k)
           /\ UNCHANGED <<project_config, home_config, project_config_file,
                          home_config_file, project_parent, home_parent>>]_vars

\* python.path set to a value that differs from what both layers hold for it
C5_Witness ==
    /\ last.op = "set" /\ last.res = "ok" /\ last.key = K_python_path
    /\ DictHas(project_config, K_python_path)
    /\ DictHas(home_config, K_python_path)
    /\ getitem(K_python_path).value # DictGet(project_config, K_python_path)
    /\ getitem(K_python_path).value # DictGet(home_config, K_python_path)

\* C6: __setitem__ stores boolean true for a text that is "true" in any mix
\* of upper and lower case, boolean false for a text that is "false" in any
\* mix of case, and every other text and every value that is no text as it
\* was given.
C6_BooleanCoercion ==
    (last.op = "set" /\ last.res = "ok") =>
        /\ getitem(last.key).res = "ok"
        /\ getitem(last.key).value =
              IF last.value.kind = "str"
                 /\ last.value.s \in CaseVariants(<<"t", "r", "u", "e">>)
              THEN Bool(TRUE)
              ELSE IF last.value.kind = "str"
                      /\ last.value.s \in CaseVariants(<<"f", "a", "l", "s", "e">>)
              THEN Bool(FALSE)
              ELSE last.value
        /\ Lookup(dirty, last.key) = getitem(last.key).value

\* "tRuE" was set and boolean true is what the store holds
C6_Witness ==
    /\ last.op = "set" /\ last.res = "ok"
    /\ last.value = Str(<<"t", "R", "u", "E">>)
    /\ getitem(last.key).value = Bool(TRUE)

\* C7: save_config(False) that meets no failing open or write, no regular
\* file where the directory belongs and no clash of keys succeeds and
\* clears _dirty, the parent directory being there afterwards; this
\* includes a store whose home file and its directories do not exist yet.
C7_HomeSaveSucceeds ==
    (/\ last.op = "save" /\ ~last.for_proejct
     /\ last.res \notin {"OSError", "TypeError", "FileExistsError"})
    => (last.res = "ok" /\ dirty = <<>> /\ home_parent = "dir")

\* C8: a save_config that fails, at the directory, while building the
\* document or at the write, leaves _dirty and the merged view as they were,
\* and what a retry to the same target would merge is what this call merged;
\* _dirty changes only in a call that succeeds, which empties it after the
\* file is written.
C8_FailureAtomicity ==
    [][\A for_proejct \in BOOLEAN :
        (IsCall("save") /\ last'.for_proejct = for_proejct)
        => /\ last'.res # "ok"
              => /\ dirty' = dirty
                 /\ data' = data
                 /\ DictUpdate(Layer(for_proejct), dirty)'
                       = DictUpdate(Layer(for_proejct), dirty)
           /\ dirty' # dirty
              => /\ last'.res = "ok"
                 /\ dirty' = <<>>
                 /\ LayerFile(for_proejct)'.exists
                 /\ DictKeys(dirty)
                       \subseteq DictKeys(get_item(LayerFile(for_proejct)'.doc))
           /\ last'.res = "ok" => dirty' = <<>>]_vars

\* a write that failed with changes pending, which are still pending
C8_Witness ==
    /\ last.op = "save" /\ last.res = "OSError"
    /\ dirty # <<>>

\* C9: for a document in which no key is both a branch and a leaf, what
\* save_config builds from the flat mapping that load_config made of the
\* document is the document again.
C9_RoundTrip ==
    [][(/\ nops = 0 /\ IsCall("save") /\ last'.for_proejct
        /\ last'.res = "ok"
        /\ PrefixFree(DictKeys(get_item(project_config_file.doc))))
        => DictEq(project_config_file'.doc, project_config_file.doc)]_vars

\* C9 as amended: the same for a document whose keys hold no '.' and whose
\* tables, the document itself apart, are not empty.
C9_RoundTripPlain ==
    [][(/\ nops = 0 /\ IsCall("save") /\ last'.for_proejct
        /\ PlainDoc(project_config_file.doc)
        /\ last'.res \in {"ok", "TypeError"})
        => /\ last'.res = "ok"
           /\ DictEq(project_config_file'.doc, project_config_file.doc)
           /\ DictEq(Unflatten(get_item(project_config_file.doc)).doc,
                     project_config_file.doc)]_vars

\* a plain document with a table of two entries was loaded and written back
C9_Witness ==
    /\ nops = 1 /\ last.op = "save" /\ last.res = "ok" /\ last.for_proejct
    /\ PlainDoc(project_config_file.doc)
    /\ \E i \in DOMAIN project_config_file.doc :
          /\ project_config_file.doc[i].v.kind = "table"
          /\ Len(project_config_file.doc[i].v.sub) = 2

\* C10: a successful save_config leaves the target file holding every key of
\* _dirty with its value there, every other key of the target layer as it
\* was before the call with its value, and nothing else.
C10_SaveWritesLayer ==
    [][\A for_proejct \in BOOLEAN :
        (IsCall("save") /\ last'.for_proejct = for_proejct
         /\ last'.res = "ok")
        => /\ LayerFile(for_proejct)'.exists
           /\ \A k \in DictKeys(dirty) :
                 AtPath(LayerFile(for_proejct)'.doc, k) = DictGet(dirty, k)
           /\ \A k \in DictKeys(Layer(for_proejct)) \ DictKeys(dirty) :
                 AtPath(LayerFile(for_proejct)'.doc, k)
                    = DictGet(Layer(for_proejct), k)
           /\ DictKeys(get_item(LayerFile(for_proejct)'.doc))
                 = DictKeys(Layer(for_proejct)) \cup DictKeys(dirty)]_vars

\* C10 as amended: the same, provided that among the keys of the target
\* layer and of _dirty none is a proper dotted beginning of another.
C10_SaveWritesPrefixFreeLayer ==
    [][\A for_proejct \in BOOLEAN :
        (/\ IsCall("save") /\ last'.for_proejct = for_proejct
         /\ last'.res = "ok"
         /\ PrefixFree(DictKeys(Layer(for_proejct)) \cup DictKeys(dirty)))
        => /\ LayerFile(for_proejct)'.exists
           /\ \A k \in DictKeys(dirty) :
                 AtPath(LayerFile(for_proejct)'.doc, k) = DictGet(dirty, k)
           /\ \A k \in DictKeys(Layer(for_proejct)) \ DictKeys(dirty) :
                 AtPath(LayerFile(for_proejct)'.doc, k)
                    = DictGet(Layer(for_proejct), k)
           /\ DictKeys(get_item(LayerFile(for_proejct)'.doc))
                 = DictKeys(Layer(for_proejct)) \cup DictKeys(dirty)]_vars

\* python.path was set and saved to a project file that had pypi.url; the
\* file holds both and not cache_dir, which the defaults and the merged view
\* have
C10_Witness ==
    /\ last.op = "save" /\ last.res = "ok" /\ last.for_proejct
    /\ AtPath(project_config_file.doc, K_python_path) = Bool(TRUE)
    /\ AtPath(project_config_file.doc, K_pypi_url) = Str(<<"p">>)
    /\ AtPath(project_config_file.doc, K_cache_dir) = None
    /\ DictHas(data, K_cache_dir)

\* The store and the file system but for the record of the calls
store == <<data, dirty, project_config, home_config, project_config_file,
           home_config_file, project_parent, home_parent>>

\* C11: __getitem__ returns the merged view's value for a key the view has
\* and ends in NoConfigError naming the key otherwise, also for python.path,
\* which is registered but has no default, on a store built from no files;
\* it changes nothing of the store or the files.
C11_Get ==
    /\ []((last.op = "init" /\ ~project_config_file.exists
           /\ ~home_config_file.exists)
          => getitem(K_python_path).res = "NoConfigError")
    /\ [][\A key \in SetKeys :
           (IsCall("get") /\ last'.key = key)
           => /\ IF key \in DictKeys(data)
                 THEN /\ last'.res = "ok"
                      /\ last'.value = Lookup(data, key)
                 ELSE /\ last'.res = "NoConfigError"
                      /\ last'.names = <<key>>
              /\ UNCHANGED store]_vars

\* python.path asked of a store built from no files and never set
C11_Witness ==
    /\ last.op = "get" /\ last.key = K_python_path
    /\ last.res = "NoConfigError"
    /\ nops = 1
    /\ ~project_config_file.exists /\ ~home_config_file.exists

\* C12: __delitem__ ends in NotImplementedError for every key, registered
\* or not, in the merged view or not, and changes nothing of the store or
\* the files.
C12_DeleteUnsupported ==
    [][IsCall("del")
        => (last'.res = "NotImplementedError" /\ UNCHANGED store)]_vars

\* a delete of cache_dir, which the view has, with a change pending
C12_Witness ==
    /\ last.op = "del" /\ last.key = K_cache_dir
    /\ DictHas(data, K_cache_dir)
    /\ dirty # <<>>

\* C13: Config.__init__ with neither file there leaves both layers and
\* _dirty empty and the merged view holding exactly the defaults: cache_dir,
\* python.use_pyenv and the package index's two settings; it leaves the
\* file system as it found it.
C13_MissingFiles ==
    [][(/\ last.op = "none" /\ last'.op = "init"
        /\ ~project_config_file.exists /\ ~home_config_file.exists)
        => /\ project_config' = <<>>
           /\ home_config' = <<>>
           /\ dirty' = <<>>
           /\ DictKeys(data') =
                 {K_cache_dir, K_python_use_pyenv} \cup DictKeys(get_pypi_source)
           /\ Lookup(data', K_cache_dir) = user_cache_dir
           /\ Lookup(data', K_python_use_pyenv) = Bool(TRUE)
           /\ \A k \in DictKeys(get_pypi_source) :
                 Lookup(data', k) = DictGet(get_pypi_source, k)
           /\ UNCHANGED <<project_config_file, home_config_file,
                          project_parent, home_parent>>]_vars

\* a store built where neither file nor the home directories exist
C13_Witness ==
    /\ last.op = "init"
    /\ ~project_config_file.exists /\ ~home_config_file.exists
    /\ home_parent = "noancestor"
    /\ data # <<>> /\ project_config = <<>> /\ home_config = <<>>

\* The members of a list
Members(seq) == {seq[i] : i \in DOMAIN seq}

\* C14: iteration yields exactly the keys of the merged view, each once, and
\* the length is their number: a registry key with no default that no layer
\* holds and that is not pending is not enumerated, a key is enumerated
\* right after a set on it succeeded, and the call changes nothing.
C14_IterLen ==
    /\ [](\A k \in DOMAIN CONFIG_ITEMS :
            (/\ ~DictHas(DEFAULT_CONFIG, k) /\ ~DictHas(project_config, k)
             /\ ~DictHas(home_config, k) /\ ~DictHas(dirty, k))
            => k \notin Members(iter_data))
    /\ []((last.op = "set" /\ last.res = "ok")
          => last.key \in Members(iter_data))
    /\ [][IsCall("iter")
           => /\ Members(last'.names) = DictKeys(data)
              /\ Len(last'.names) = Cardinality(DictKeys(data))
              /\ last'.value = Num(Cardinality(DictKeys(data)))
              /\ UNCHANGED store]_vars

\* the keys listed after python.path, in no file and with no default, was
\* set: the list has it, and is longer than the defaults
C14_Witness ==
    /\ last.op = "iter"
    /\ K_python_path \in Members(last.names)
    /\ ~DictHas(project_config, K_python_path)
    /\ ~DictHas(home_config, K_python_path)
    /\ DictHas(dirty, K_python_path)
    /\ Len(last.names) > Len(DEFAULT_CONFIG)

\* C15: _dirty is empty after construction; a successful set puts the key
\* with its coerced value into it and touches no other entry; a successful
\* save empties it; a failed set, a failed save, a get, a delete and an
\* iteration leave it as it is. So every key of _dirty is a registry key
\* and the merged view holds _dirty's value for it.
C15_Dirty ==
    /\ [](/\ last.op = "init" => dirty = <<>>
          /\ DictKeys(dirty) \subseteq DOMAIN CONFIG_ITEMS
          /\ \A k \in DictKeys(dirty) : Lookup(data, k) = Lookup(dirty, k))
    /\ [][/\ \A key \in SetKeys, value \in SetValues :
               (IsCall("set") /\ last'.key = key /\ last'.value = value
                /\ last'.res = "ok")
               => \A k \in DictKeys(dirty) \cup DictKeys(dirty') \cup {key} :
                     Lookup(dirty', k) =
                        IF k = key THEN Coerce(value) ELSE Lookup(dirty, k)
          /\ (IsCall("save") /\ last'.res = "ok") => dirty' = <<>>
          /\ (last'.res # "ok" \/ last'.op \in {"get", "del", "iter"})
               => dirty' = dirty]_vars

\* python.path set, saved to the project file, and set again to another
\* value: _dirty holds the second value only
C15_Witness ==
    /\ last.op = "set" /\ last.key = K_python_path /\ last.res = "ok"
    /\ Len(dirty) = 1
    /\ Lookup(dirty, K_python_path) = Coerce(last.value)
    /\ AtPath(project_config_file.doc, K_python_path) \in
          {Coerce(v) : v \in SetValues} \ {Coerce(last.value)}

\* C16: whether it succeeds or fails, save_config(True) leaves the home file
\* and _home_config as they are, save_config(False) leaves the project file
\* and _project_config as they are, and neither changes the merged view.
C16_SaveFrame ==
    [][IsCall("save")
        => /\ data' = data
           /\ last'.for_proejct
                => UNCHANGED <<home_config_file, home_config, home_parent>>
           /\ ~last'.for_proejct
                => UNCHANGED <<project_config_file, project_config,
                               project_parent>>]_vars

\* a pending python.path saved to the home file while the project file
\* exists and sets other keys
C16_Witness ==
    /\ last.op = "save" /\ ~last.for_proejct /\ last.res = "ok"
    /\ AtPath(home_config_file.doc, K_python_path) # None
    /\ project_config_file.exists /\ project_config # <<>>
    /\ ~DictHas(project_config, K_python_path)

\* C17: a save_config that fails at mkdir or at the write leaves the
\* in-memory layer it was to save as it was before the call (so that a key
\* can reach the project file only from the loaded Project layer or from
\* _dirty at a successful save_config(True)).
C17_FailedSaveKeepsLayer ==
    [][\A for_proejct \in BOOLEAN :
        (/\ IsCall("save") /\ last'.for_proejct = for_proejct
         /\ last'.res \in {"FileExistsError", "FileNotFoundError", "OSError"})
        => Layer(for_proejct)' = Layer(for_proejct)]_vars

\* What a new Config over the two files would hold as _data
Reloaded(hfile, pfile) ==
    DictUpdate(DictUpdate(DEFAULT_CONFIG, load_config(hfile)),
               load_config(pfile))

\* C18: right after a successful save_config, a new store over the same two
\* files has in its merged view, for every key that was pending at the
\* save, the value the saving store's merged view has, also when the save
\* went to the home file and the project file defines the key.
C18_ReloadAgrees ==
    [][(IsCall("save") /\ last'.res = "ok")
        => \A hfile \in {home_config_file'}, pfile \in {project_config_file'},
              view \in {data'} :
              \A k \in DictKeys(dirty) :
                 Lookup(Reloaded(hfile, pfile), k) = Lookup(view, k)]_vars

\* C18 as amended: the same, except for a key that was saved to the home
\* file while the project file defines it: for that key the new store holds
\* the project file's value.
C18_ReloadAgreesUnlessShadowed ==
    [][\A for_proejct \in BOOLEAN :
        (IsCall("save") /\ last'.res = "ok"
         /\ last'.for_proejct = for_proejct)
        => \A hfile \in {home_config_file'}, pfile \in {project_config_file'},
              view \in {data'} :
              \A k \in DictKeys(dirty) :
                 IF ~for_proejct /\ DictHas(get_item(project_config_file.doc), k)
                 THEN Lookup(Reloaded(hfile, pfile), k)
                         = Lookup(get_item(project_config_file.doc), k)
                 ELSE Lookup(Reloaded(hfile, pfile), k) = Lookup(view, k)]_vars

\* python.path, which the project file sets to "p", was set to another value
\* and saved to the home file, which now holds that value
C18_Witness ==
    /\ last.op = "save" /\ last.res = "ok" /\ ~last.for_proejct
    /\ AtPath(project_config_file.doc, K_python_path) = Str(<<"p">>)
    /\ AtPath(home_config_file.doc, K_python_path) = Lookup(data, K_python_path)
    /\ Lookup(data, K_python_path) # Str(<<"p">>)
    /\ dirty = <<>>

\* No table of the document has two entries of one name
RECURSIVE OneEntryPerName(_)
OneEntryPerName(doc) ==
    /\ \A i \in DOMAIN doc, j \in DOMAIN doc : doc[i].k = doc[j].k => i = j
    /\ \A i \in DOMAIN doc :
          doc[i].v.kind = "table" => OneEntryPerName(doc[i].v.sub)

\* Two dotted keys that begin with the same piece
SharePrefix(a, b) == a # b /\ Len(a) > 1 /\ Len(b) > 1 /\ a[1] = b[1]

\* C19: when no key of the saved layer mapping is a proper dotted beginning
\* of another, the document a successful save_config writes holds every key
\* of the mapping as the value at the end of its path, with one table per
\* name at every level, so that keys with a common beginning are in the same
\* table, and flattening the document gives the mapping back.
C19_SharedTables ==
    [][\A for_proejct \in BOOLEAN :
        (/\ IsCall("save") /\ last'.for_proejct = for_proejct
         /\ last'.res = "ok"
         /\ PrefixFree(DictKeys(Layer(for_proejct)')))
        => /\ \A k \in DictKeys(Layer(for_proejct)') :
                 AtPath(LayerFile(for_proejct)'.doc, k)
                    = DictGet(Layer(for_proejct)', k)
           /\ OneEntryPerName(LayerFile(for_proejct)'.doc)
           /\ \A a \in DictKeys(Layer(for_proejct)'),
                 b \in DictKeys(Layer(for_proejct)') :
                 SharePrefix(a, b)
                 => AtPath(LayerFile(for_proejct)'.doc, <<a[1]>>).kind = "table"
           /\ DictEq(get_item(LayerFile(for_proejct)'.doc),
                     Layer(for_proejct)')]_vars

\* python.path was set and saved to the home file that had python.path and
\* python.use_pyenv: one python table holds the new path and use_pyenv
C19_Witness ==
    /\ last.op = "save" /\ last.res = "ok" /\ ~last.for_proejct
    /\ Len(home_config_file.doc) = 1
    /\ AtPath(home_config_file.doc, <<"python">>).kind = "table"
    /\ Len(AtPath(home_config_file.doc, <<"python">>).sub) = 2
    /\ AtPath(home_config_file.doc, K_python_path)
          \in {Coerce(v) : v \in SetValues}
    /\ AtPath(home_config_file.doc, K_python_use_pyenv) = Bool(FALSE)

\* C20: no step takes a key out of the merged view, whichever call it is
\* and however the call ends; the four keys with a compiled-in default are
\* in the merged view in every state, and a get on one of them succeeds.
C20_KeysNeverShrink ==
    /\ [](\A k \in {K_cache_dir, K_python_use_pyenv, K_pypi_url,
                    K_pypi_verify_ssl} :
            k \in DictKeys(data) /\ getitem(k).res = "ok")
    /\ [][/\ DictKeys(data) \subseteq DictKeys(data')
          /\ (IsCall("get") /\ last'.key = K_cache_dir) => last'.res = "ok"]_vars

\* a set, a failed save and a delete of cache_dir, after which cache_dir and
\* the key that was set are still in the merged view
C20_Witness ==
    /\ nops = 3
    /\ last.op = "del" /\ last.key = K_cache_dir
    /\ dirty # <<>>
    /\ project_config # <<>> \/ home_config # <<>>
    /\ DictKeys(dirty) \cup {K_cache_dir} \subseteq DictKeys(data)
    /\ ~project_config_file.exists /\ ~home_config_file.exists

====
